---- MODULE Spec2Model ----
(***************************************************************************)
(* Model of the event notification scheduler (class NotificationService)   *)
(* of the jarvis desktop assistant: the poll interval, the reconciliation  *)
(* pass (checkAndScheduleNotifications / scheduleEventNotifications), the  *)
(* per-alert timers, the Pending Timer Registry (scheduledNotifications)   *)
(* and the Fired Set (sentNotifications).  Times are milliseconds.         *)
(***************************************************************************)
EXTENDS Integers, Sequences, FiniteSets, Bags, TLC

\* ---------------------------------------------------------------- bounds
\* timeouts that can be armed for one notification key at the same time
MaxTimers == 2
\* reconciliation passes that may be awaiting their calendar read at once
MaxPasses == 1
\* the presentation counter saturates here
MaxShown == 2

\* the intervals the timer subsystem can hold armed
MaxIntervals == 2
\* the ticks of the wall clock of SpecPoll
MaxTicks == 12
\* the timeouts and intervals ProductivityCheckService may create
MaxHandles == 5

\* ------------------------------------------------------ program constants
GraceMs == 5000
PollMs == 30000
ThirtyMinMs == 30 * 60 * 1000
FifteenMinMs == 15 * 60 * 1000
\* ProductivityCheckService: the delay of the first check and of the interval
CheckMs == 20 * 60 * 1000

\* ------------------------------------------------------------ input sets
\* event identifiers, as character sequences (the second one starts with the
\* first one followed by an underscore)
EventIds == { <<"a">>, <<"a", "_", "b">> }
\* the events the Calendar Store holds under Spec
CoreEvents == { <<"a">> }
\* start times an event can have (whole minutes), and "no such event"
StartA == 31 * 60 * 1000
StartB == 46 * 60 * 1000
StartTimes == { StartA, StartB }
NoEvent == 0 - 1
\* malformed start fields: none at all (undefined or ""), and a string whose
\* fields are not numbers (Number gives NaN)
MissingStart == 0 - 2
BadStart == 0 - 3
Malformed == { MissingStart, BadStart }
\* the event that is malformed under SpecMalformed
OtherEvents == EventIds \ CoreEvents
\* the instants at which the wall clock is observed
Instants == { 0,
              StartA - ThirtyMinMs - 2000,
              StartA - ThirtyMinMs + 2000,
              StartA - ThirtyMinMs + 40000,
              StartA - FifteenMinMs,
              StartA,
              StartA + 5000 }

\* null, for a field that holds a handle or a time
NoHandle == 0 - 1

\* --------------------------------------------------------------- helpers
NotificationTypes == << "30min", "15min", "now" >>

TypeSet == { NotificationTypes[i] : i \in 1..Len(NotificationTypes) }

\* `${event._id || event.id}_${type}`
NotificationKey(eventId, type) == eventId \o << "_", type >>

Keys == { NotificationKey(e, t) : e \in EventIds, t \in TypeSet }

\* String.prototype.startsWith
startsWith(str, prefix) ==
    /\ Len(prefix) <= Len(str)
    /\ SubSeq(str, 1, Len(prefix)) = prefix

\* mutant: the offsets of the two early alert points are swapped
NotificationTime_Swapped(eventTime, type) ==
    IF type = "30min" THEN eventTime - FifteenMinMs
    ELSE IF type = "15min" THEN eventTime - ThirtyMinMs
    ELSE eventTime

\* the time of the alert point of one type: eventTime - offset
NotificationTime(eventTime, type) ==
    IF type = "30min" THEN eventTime - ThirtyMinMs
    ELSE IF type = "15min" THEN eventTime - FifteenMinMs
    ELSE eventTime

\* Map.delete
MapDelete(m, ks) == [ k \in (DOMAIN m) \ ks |-> m[k] ]

\* Map.set
MapSet(m, k, v) == [ x \in (DOMAIN m) \cup {k} |-> IF x = k THEN v ELSE m[x] ]

EmptyMap == [ k \in {} |-> 0 ]

VARIABLES
    isRunning,               \* this.isRunning
    checkInterval,           \* this.checkInterval is set (it holds an interval handle)
    intervals,               \* the number of armed intervals of the timer subsystem
    scheduledNotifications,  \* Map: notification key -> timeout handle
    sentNotifications,       \* Set of notification keys
    timers,                  \* the armed timeouts of the timer subsystem
    passes,                  \* bag of the passes suspended at `await getEventsForDate`
    calendar,                \* Calendar Store: event id -> start time or NoEvent
    dbConnected,             \* database.getDb() is not null
    now,                     \* wall clock
    shown,                   \* showNotification calls per key since the last reset
    last,                    \* the operation that produced this state
    nextPoll,                \* the instant the poll interval is due next
    startedAt,               \* the instant of the start() that armed the poll interval
    pollCount,               \* the ticks of the poll interval since that start()
    failed,                  \* the last pass whose calendar read threw, as it ended
    presenterBroken,         \* windowManager.createNotificationWindow throws when called
    failedKeys,              \* the keys whose presentation threw
    restart,                 \* the stop() and start() of a restart under way
    overlap,                 \* how far two passes awaiting the same calendar read have got
    begunAt,                 \* the instant at which the pass last begun was called
    checkIsRunning,          \* ProductivityCheckService: this.isRunning
    firstCheckTimeout,       \* this.firstCheckTimeout: a timeout handle or NoHandle
    checkServiceInterval,    \* this.checkInterval: an interval handle or NoHandle
    lastCheckTime,           \* this.lastCheckTime
    checkTimers,             \* the armed timeouts and intervals of the timer subsystem
    handlesMade,             \* the handles the timer subsystem has given out
    checkNow,                \* wall clock of the productivity checks
    checkStartedAt,          \* the instant of the start() that last armed a timeout
    checkCount,              \* productivity checks shown since that start()
    checkStops               \* what the stop() calls so far have found armed

\* the poll interval on the wall clock
timing == << nextPoll, startedAt, pollCount, failed >>

\* the Alert Presenter
presenter == << presenterBroken, failedKeys >>

\* ProductivityCheckService and its timers
productivity == << checkIsRunning, firstCheckTimeout, checkServiceInterval, lastCheckTime,
                   checkTimers, handlesMade, checkNow, checkStartedAt, checkCount, checkStops >>

\* the interleavings of passes followed
races == << overlap, begunAt >>

\* what only the specifications of the environment's timing and faults follow
extras == << timing, presenter, restart, races, productivity >>

vars == << isRunning, checkInterval, intervals, scheduledNotifications, sentNotifications,
           timers, passes, calendar, dbConnected, now, shown, last, extras >>

\* the scheduler's own data, as the pure operators below transform it
Sched == [ scheduled |-> scheduledNotifications,
           sent      |-> sentNotifications,
           timers    |-> timers,
           shown     |-> shown,
           ok        |-> TRUE ]

\* ------------------------------------------------------ timer subsystem
\* a timeout handle is an opaque unique value: here the key its callback
\* closes over and a serial number among the timeouts armed for that key
FreeHandles(s, key) ==
    { [ key |-> key, n |-> i ] : i \in 1..MaxTimers } \ { t.tid : t \in s.timers }

\* setTimeout(callback, delay): the callback closes over event, type and key
setTimeout(s, event, type, key, time) ==
    IF FreeHandles(s, key) = {}
    THEN [ s EXCEPT !.ok = FALSE ]
    ELSE LET h == CHOOSE x \in FreeHandles(s, key) : \A y \in FreeHandles(s, key) : x.n <= y.n
         IN  [ s EXCEPT !.timers = @ \cup { [ tid |-> h, key |-> key, event |-> event,
                                              type |-> type, time |-> time ] },
                        !.scheduled = MapSet(@, key, h) ]

\* mutant: the timeouts are not cleared
clearTimeout_Forgotten(ts, handles) == ts

\* clearTimeout(handle): the timeout with this handle never runs
clearTimeout(ts, handles) == { t \in ts : t.tid \notin handles }

\* ------------------------------------------------------- showNotification
\* one invocation of the Alert Presenter for (event id, type)
showNotification(s, event, type) ==
    [ s EXCEPT !.shown[NotificationKey(event.id, type)] =
                   IF @ < MaxShown THEN @ + 1 ELSE @ ]

\* -------------------------------------------- scheduleEventNotifications
\* mutant: an event that starts exactly now counts as past
EventInPast_Inclusive(eventTime, currentTime) == eventTime <= currentTime

\* line 372: the event is in the past
EventInPast(eventTime, currentTime) == eventTime < currentTime

\* mutant: a notification time exactly the grace window ahead counts as very close
VeryClose_Inclusive(timeUntilNotification) == timeUntilNotification <= GraceMs

\* mutant: no notification time counts as very close
VeryClose_Never(timeUntilNotification) == FALSE

\* line 390: the notification time is closer than the grace window
VeryClose(timeUntilNotification) == timeUntilNotification < GraceMs

\* mutant: no notification time counts as past
NotificationInPast_Never(timeUntilNotification) == FALSE

\* line 391: the notification time is in the past
NotificationInPast(timeUntilNotification) == timeUntilNotification < 0

\* line 398: the guard of the immediate presentation
NotYetSent(s, key) == key \notin s.sent

\* mutant: the Registry is not consulted
AlreadyScheduledOrSent_SentOnly(s, key) == key \in s.sent

\* mutant: the Fired Set is not consulted
AlreadyScheduledOrSent_ScheduledOnly(s, key) == key \in DOMAIN s.scheduled

\* line 410: skip if already scheduled or sent
AlreadyScheduledOrSent(s, key) ==
    key \in DOMAIN s.scheduled \/ key \in s.sent

\* the body of notificationTimes.forEach for one entry
ScheduleOne(s, event, currentTime, type) ==
    LET time == NotificationTime(event.start, type)
        timeUntilNotification == time - currentTime
        notificationKey == NotificationKey(event.id, type)
    IN  IF VeryClose(timeUntilNotification)
        THEN IF NotificationInPast(timeUntilNotification)
             THEN s
             ELSE IF NotYetSent(s, notificationKey)
                  THEN [ showNotification(s, event, type)
                           EXCEPT !.sent = @ \cup { notificationKey } ]
                  ELSE s
        ELSE IF AlreadyScheduledOrSent(s, notificationKey)
             THEN s
             ELSE setTimeout(s, event, type, notificationKey, time)

RECURSIVE ScheduleTypes(_, _, _, _)
ScheduleTypes(s, event, currentTime, i) ==
    IF i > Len(NotificationTypes)
    THEN s
    ELSE ScheduleTypes(ScheduleOne(s, event, currentTime, NotificationTypes[i]),
                       event, currentTime, i + 1)

\* lines 353-357: the event has no start field (every row of the query has
\* the date asked for)
MissingStartOrDate(event) == event.start = MissingStart

\* what parseEventDateTime returns for a string it rejects
Null == 0 - 9

\* mutant: the isNaN check is missing and a NaN date goes on as some instant
parseEventDateTime_NoNaNCheck(timeString) ==
    IF timeString = MissingStart THEN Null
    ELSE IF timeString = BadStart THEN StartB
    ELSE timeString

\* mutant: the time is built one hour later than the string says
parseEventDateTime_HourLater(timeString) ==
    IF timeString = MissingStart THEN Null
    ELSE IF timeString = BadStart THEN Null
    ELSE timeString + 2 * ThirtyMinMs

\* parseEventDateTime(event.date, timeString): null for a missing string and
\* for fields that are not numbers, else the instant of that time of day
parseEventDateTime(timeString) ==
    IF timeString = MissingStart THEN Null
    ELSE IF timeString = BadStart THEN Null
    ELSE timeString

scheduleEventNotifications(s, event, currentTime) ==
    IF MissingStartOrDate(event)
    THEN s
    ELSE LET eventTime == parseEventDateTime(event.start)
         IN  IF eventTime = Null
             THEN s
             ELSE IF EventInPast(eventTime, currentTime)
                  THEN s
                  ELSE ScheduleTypes(s, [ event EXCEPT !.start = eventTime ], currentTime, 1)

\* --------------------------------------------------- resetNotifications
\* mutant: the Fired Set is not cleared
resetNotifications_KeepsSent(s) ==
    [ s EXCEPT !.timers = clearTimeout(@, { s.scheduled[k] : k \in DOMAIN s.scheduled }),
               !.scheduled = EmptyMap ]

\* (a reset starts a new epoch: the presentation counts start again at 0)
resetNotifications(s) ==
    [ s EXCEPT !.timers = clearTimeout(@, { s.scheduled[k] : k \in DOMAIN s.scheduled }),
               !.scheduled = EmptyMap,
               !.sent = {},
               !.shown = [ k \in Keys |-> 0 ] ]

\* ------------------------------------------------ clearSentNotifications
\* (counted as a reset of the Fired Set: the presentation counts start again)
clearSentNotifications(s) ==
    [ s EXCEPT !.sent = {}, !.shown = [ k \in Keys |-> 0 ] ]

\* ---------------------------------------------- cancelEventNotifications
\* mutant: the arguments of startsWith are swapped
keysToCancel_Swapped(s, eventId) ==
    { key \in DOMAIN s.scheduled : startsWith(eventId \o << "_" >>, key) }

\* lines 522-526: the keys of the Registry that start with `${eventId}_`
keysToCancel(s, eventId) ==
    { key \in DOMAIN s.scheduled : startsWith(key, eventId \o << "_" >>) }

cancelEventNotifications(s, eventId) ==
    LET ks == keysToCancel(s, eventId)
    IN  [ s EXCEPT !.timers = clearTimeout(@, { s.scheduled[k] : k \in ks }),
                   !.scheduled = MapDelete(@, ks),
                   !.sent = @ \ ks ]

\* ------------------------------------------- checkAndScheduleNotifications
\* the events of a snapshot, as the rows the query returns
EventsOf(snapshot) ==
    { [ id |-> e, start |-> snapshot[e] ] : e \in { x \in EventIds : snapshot[x] # NoEvent } }

\* the for-loop over the events, in the order of the query (.sort by start)
RECURSIVE ProcessEvents(_, _, _)
ProcessEvents(s, events, currentTime) ==
    IF events = {}
    THEN s
    ELSE LET firsts == { e \in events : \A o \in events : e.start <= o.start }
             event == CHOOSE e \in firsts : \A o \in firsts : Len(e.id) <= Len(o.id)
         IN  ProcessEvents(scheduleEventNotifications(s, event, currentTime),
                           events \ { event }, currentTime)

\* mutant: resetFirst is ignored
PassBefore_NoReset(s, resetFirst) == s

\* the part of a pass before `await getEventsForDate`: lines 309-321
PassBefore(s, resetFirst) ==
    IF resetFirst THEN resetNotifications(s) ELSE s

\* mutant: an empty calendar resets whether or not a reset was asked for
PassAfter_ResetsOnEmpty(s, resetFirst, snapshot, currentTime) ==
    IF { e \in EventIds : snapshot[e] # NoEvent } = {}
    THEN [ s EXCEPT !.timers = { t \in @ : t.tid \notin
                                    { s.scheduled[k] : k \in DOMAIN s.scheduled } },
                    !.scheduled = EmptyMap,
                    !.sent = {},
                    !.shown = [ k \in Keys |-> 0 ] ]
    ELSE ProcessEvents(s, EventsOf(snapshot), currentTime)

\* the part of a pass after the await: lines 323-340
PassAfter(s, resetFirst, snapshot, currentTime) ==
    IF EventsOf(snapshot) = {}
    THEN IF resetFirst THEN resetNotifications(s) ELSE s
    ELSE ProcessEvents(s, EventsOf(snapshot), currentTime)

\* ------------------------------------------------------------ the machine
NoId == << >>

\* the record of the operation that produced a state: its name, its event-id
\* argument, the resetFirst flag and the snapshot of a pass, the Fired Set and
\* the Registry it started from, whether it is the start of a pass right after
\* the end of a pass over the same calendar (after), and whether it is the end
\* of the second of two such passes (twice)
\* the keys a resetNotifications() call took out of the Fired Set, handed on
\* to the start and to the end of the pass that follows the call directly
Cleared(name) ==
    IF \/ name \in { "start", "poll", "refresh" } /\ last.op = "reset"
       \/ name = "pass" /\ last.op \in { "start", "poll", "refresh" }
    THEN last.cleared
    ELSE {}

Op(name, id, reset, snap, after, twice) ==
    [ op |-> name, id |-> id, reset |-> reset, snap |-> snap,
      sent |-> sentNotifications, sched |-> scheduledNotifications,
      after |-> after, twice |-> twice, cleared |-> Cleared(name) ]

\* an operation of which only the name is recorded
SchedOp(name) ==
    [ op |-> name, id |-> NoId, reset |-> FALSE, snap |-> EmptyMap,
      sent |-> {}, sched |-> EmptyMap, after |-> FALSE, twice |-> FALSE,
      cleared |-> {} ]

\* write the scheduler's data back
Commit(s) ==
    /\ s.ok
    /\ scheduledNotifications' = s.scheduled
    /\ sentNotifications' = s.sent
    /\ timers' = s.timers
    /\ shown' = s.shown

\* no pass has failed
NoFailure == [ at |-> 0 - 1, snap |-> EmptyMap, sent |-> {}, sched |-> EmptyMap ]

\* no restart is under way
NoRestart == [ phase |-> "none", sent |-> {}, armed |-> {} ]

\* the state after construction: the service is built before the database is
\* connected (database.js:90 and 147)
Init ==
    /\ isRunning = FALSE
    /\ checkInterval = FALSE
    /\ intervals = 0
    /\ scheduledNotifications = EmptyMap
    /\ sentNotifications = {}
    /\ timers = {}
    /\ passes = EmptyBag
    /\ calendar = [ e \in EventIds |-> NoEvent ]
    /\ dbConnected = FALSE
    /\ now = 0
    /\ shown = [ k \in Keys |-> 0 ]
    /\ last = SchedOp("init")
    /\ nextPoll = 0
    /\ startedAt = 0
    /\ pollCount = 0
    /\ failed = NoFailure
    /\ presenterBroken = FALSE
    /\ failedKeys = {}
    /\ restart = NoRestart
    /\ overlap = "none"
    /\ begunAt = 0
    /\ checkIsRunning = FALSE
    /\ firstCheckTimeout = NoHandle
    /\ checkServiceInterval = NoHandle
    /\ lastCheckTime = NoHandle
    /\ checkTimers = {}
    /\ handlesMade = 0
    /\ checkNow = 0
    /\ checkStartedAt = 0
    /\ checkCount = 0
    /\ checkStops = {}

\* checkAndScheduleNotifications(resetFirst) up to its await: without a
\* database handle it returns at once; otherwise it resets when asked to and
\* suspends on the calendar read, which sees the calendar as it is
BeginPassUpTo(name, resetFirst, cap) ==
    /\ last' = Op(name, NoId, resetFirst, calendar,
                  /\ dbConnected
                  /\ ~resetFirst
                  /\ last.op = "pass"
                  /\ ~last.reset
                  /\ last.snap = calendar,
                  FALSE)
    /\ IF dbConnected
       THEN /\ BagCardinality(passes) < cap
            /\ Commit(PassBefore(Sched, resetFirst))
            /\ passes' = passes (+) SetToBag({ [ resetFirst |-> resetFirst, snap |-> calendar ] })
       ELSE UNCHANGED << scheduledNotifications, sentNotifications, timers, shown, passes >>

\* a pass begun while fewer than MaxPasses passes await their calendar read
BeginPass(name, resetFirst) == BeginPassUpTo(name, resetFirst, MaxPasses)

\* start() finds the service running already
AlreadyRunning_Never == FALSE
AlreadyRunning == isRunning

\* clearInterval(this.checkInterval) when the handle is set
clearInterval_Forgotten(n, handle) == n
clearInterval(n, handle) == IF handle THEN n - 1 ELSE n

\* start()
Start ==
    IF AlreadyRunning
    THEN /\ last' = SchedOp("startAlready")
         /\ UNCHANGED << isRunning, checkInterval, intervals, scheduledNotifications, sentNotifications,
                         timers, passes, calendar, dbConnected, now, shown >>
    ELSE /\ isRunning' = TRUE
         /\ BeginPass("start", FALSE)
         /\ intervals < MaxIntervals
         /\ intervals' = intervals + 1
         /\ checkInterval' = TRUE
         /\ UNCHANGED << calendar, dbConnected, now >>

\* stop()
Stop ==
    /\ last' = Op("stop", NoId, FALSE, EmptyMap, FALSE, FALSE)
    /\ IF ~isRunning
       THEN UNCHANGED << isRunning, checkInterval, intervals, scheduledNotifications, timers >>
       ELSE /\ isRunning' = FALSE
            /\ intervals' = clearInterval(intervals, checkInterval)
            /\ checkInterval' = FALSE
            /\ timers' = clearTimeout(timers, { scheduledNotifications[k] :
                                                  k \in DOMAIN scheduledNotifications })
            /\ scheduledNotifications' = EmptyMap
    /\ UNCHANGED << sentNotifications, passes, calendar, dbConnected, now, shown >>

\* the setInterval callback of start()
PollTick ==
    /\ intervals > 0
    /\ BeginPass("poll", FALSE)
    /\ UNCHANGED << isRunning, checkInterval, intervals, calendar, dbConnected, now >>

\* refreshNotifications()
Refresh ==
    /\ BeginPass("refresh", TRUE)
    /\ UNCHANGED << isRunning, checkInterval, intervals, calendar, dbConnected, now >>

\* the calendar read of pass p returns and the pass runs to its end
PassResume(p) ==
    /\ BagIn(p, passes)
    /\ Commit(PassAfter(Sched, p.resetFirst, p.snap, now))
    /\ passes' = passes (-) SetToBag({ p })
    /\ last' = Op("pass", NoId, p.resetFirst, p.snap, FALSE,
                  /\ ~p.resetFirst
                  /\ last.snap = p.snap
                  /\ \/ last.after
                     \/ last.op = "pass" /\ ~last.reset)
    /\ UNCHANGED << isRunning, checkInterval, intervals, calendar, dbConnected, now >>

\* mutant: the catch block resets the notifications
PassCatch_Resets(s) == resetNotifications(s)

\* lines 341-343: the catch block logs the error and nothing else
PassCatch(s) == s

\* the calendar read of pass p throws: the catch block runs and the pass ends
PassFail(p) ==
    /\ BagIn(p, passes)
    /\ Commit(PassCatch(Sched))
    /\ passes' = passes (-) SetToBag({ p })
    /\ last' = Op("passFail", NoId, p.resetFirst, EmptyMap, FALSE, FALSE)
    /\ UNCHANGED << isRunning, checkInterval, intervals, calendar, dbConnected, now >>

\* mutant: the callback does not call showNotification
TimerCallback_Silent(s, t) ==
    [ s EXCEPT !.scheduled = MapDelete(@, { t.key }),
               !.sent = @ \cup { t.key } ]

\* mutant: the callback leaves its key in the Registry
TimerCallback_KeepsEntry(s, t) ==
    [ showNotification(s, t.event, t.type) EXCEPT !.sent = @ \cup { t.key } ]

\* the callback of a timeout: lines 421-425
TimerCallback(s, t) ==
    [ showNotification(s, t.event, t.type)
        EXCEPT !.scheduled = MapDelete(@, { t.key }),
               !.sent = @ \cup { t.key } ]

\* an armed timeout whose delay has elapsed runs (at its fire time or later)
TimerFire(t) ==
    /\ t \in timers
    /\ t.time <= now
    /\ Commit(TimerCallback([ Sched EXCEPT !.timers = @ \ { t } ], t))
    /\ last' = SchedOp("fire")
    /\ UNCHANGED << isRunning, checkInterval, intervals, passes, calendar, dbConnected, now >>

\* resetNotifications() called by the host
Reset ==
    /\ Commit(resetNotifications(Sched))
    /\ last' = [ SchedOp("reset") EXCEPT !.cleared = sentNotifications ]
    /\ UNCHANGED << isRunning, checkInterval, intervals, passes, calendar, dbConnected, now >>

\* clearSentNotifications()
ClearSent ==
    /\ Commit(clearSentNotifications(Sched))
    /\ last' = SchedOp("clearSent")
    /\ UNCHANGED << isRunning, checkInterval, intervals, passes, calendar, dbConnected, now >>

\* cancelEventNotifications(eventId)
CancelEvent(eventId) ==
    /\ Commit(cancelEventNotifications(Sched, eventId))
    /\ last' = Op("cancel", eventId, FALSE, EmptyMap, FALSE, FALSE)
    /\ UNCHANGED << isRunning, checkInterval, intervals, passes, calendar, dbConnected, now >>

Scheduler == << isRunning, checkInterval, intervals, scheduledNotifications, sentNotifications,
                timers, passes, shown >>

\* the Calendar Store: an event is created or its start time is changed
PutEvent(eventId, start) ==
    /\ calendar[eventId] # start
    /\ calendar' = [ calendar EXCEPT ![eventId] = start ]
    /\ last' = SchedOp("env")
    /\ UNCHANGED << Scheduler, dbConnected, now >>

\* the Calendar Store: an event is deleted
DeleteEvent(eventId) ==
    /\ calendar[eventId] # NoEvent
    /\ calendar' = [ calendar EXCEPT ![eventId] = NoEvent ]
    /\ last' = SchedOp("env")
    /\ UNCHANGED << Scheduler, dbConnected, now >>

\* database.connect() succeeds; the handle stays until the app quits
\* (database.disconnect() is called only in the before-quit handler, after stop())
DbConnect ==
    /\ ~dbConnected
    /\ dbConnected' = TRUE
    /\ last' = SchedOp("env")
    /\ UNCHANGED << Scheduler, calendar, now >>

\* the wall clock reaches the next of the instants at which it is observed
AdvanceOver(instants) ==
    /\ \E t \in instants : t > now
    /\ now' = CHOOSE t \in instants : t > now /\ \A u \in instants : u > now => t <= u
    /\ last' = SchedOp("env")
    /\ UNCHANGED << Scheduler, calendar, dbConnected >>

\* the wall clock reaches the next instant
Advance == AdvanceOver(Instants)

Next ==
    \/ Start /\ UNCHANGED extras
    \/ Stop /\ UNCHANGED extras
    \/ PollTick /\ UNCHANGED extras
    \/ Refresh /\ UNCHANGED extras
    \/ \E p \in BagToSet(passes) : PassResume(p) /\ UNCHANGED extras
    \/ \E p \in BagToSet(passes) : PassFail(p) /\ UNCHANGED extras
    \/ \E t \in timers : TimerFire(t) /\ UNCHANGED extras
    \/ Reset /\ UNCHANGED extras
    \/ ClearSent /\ UNCHANGED extras
    \/ \E e \in CoreEvents : CancelEvent(e) /\ UNCHANGED extras
    \/ \E e \in CoreEvents, st \in StartTimes : PutEvent(e, st) /\ UNCHANGED extras
    \/ \E e \in CoreEvents : DeleteEvent(e) /\ UNCHANGED extras
    \/ DbConnect /\ UNCHANGED extras
    \/ Advance /\ UNCHANGED extras

Spec == Init /\ [][Next]_vars

\* ------------------------------------------- the poll interval on the clock
\* SpecPoll follows the wall clock in steps of a third of the poll period,
\* with timers and intervals that run at the instant they are due.
TickMs == PollMs \div 3

\* mutant: the interval is armed with twice the delay
IntervalDue_Late(from) == from + 2 * PollMs

\* setInterval(callback, 30000): the interval is due 30 s after it is armed
\* and 30 s after each time it ran
IntervalDue(from) == from + PollMs

\* start(), with the due time of the interval it arms
StartPoll ==
    /\ Start
    /\ IF AlreadyRunning
       THEN UNCHANGED timing
       ELSE /\ nextPoll' = IntervalDue(now)
            /\ startedAt' = now
            /\ pollCount' = 0
            /\ UNCHANGED failed
    /\ UNCHANGED << presenter, restart, races, productivity >>

\* stop(), with the interval it clears
StopPoll ==
    /\ Stop
    /\ IF isRunning
       THEN /\ nextPoll' = 0
            /\ startedAt' = 0
            /\ pollCount' = 0
            /\ UNCHANGED failed
       ELSE UNCHANGED timing
    /\ UNCHANGED << presenter, restart, races, productivity >>

\* the setInterval callback runs when the interval is due
PollTickDue ==
    /\ now = nextPoll
    /\ pollCount < MaxTicks
    /\ PollTick
    /\ nextPoll' = IntervalDue(nextPoll)
    /\ pollCount' = pollCount + 1
    /\ UNCHANGED << startedAt, failed, presenter, restart, races, productivity >>

\* the calendar read of pass p throws; the pass is remembered with the Fired
\* Set and the Registry it ended with
PassFailPoll(p) ==
    /\ PassFail(p)
    /\ failed' = [ at |-> now, snap |-> p.snap, sent |-> sentNotifications,
                   sched |-> scheduledNotifications ]
    /\ UNCHANGED << nextPoll, startedAt, pollCount, presenter, restart, races, productivity >>

\* the wall clock moves on by one tick once everything due has run
Tick ==
    /\ now < MaxTicks * TickMs
    /\ intervals > 0 => now < nextPoll
    /\ \A t \in timers : now < t.time
    /\ now' = now + TickMs
    /\ last' = SchedOp("env")
    /\ failed' = IF failed.at + PollMs <= now THEN NoFailure ELSE failed
    /\ UNCHANGED << Scheduler, calendar, dbConnected, nextPoll, startedAt, pollCount,
                    presenter, restart, races, productivity >>

NextPoll ==
    \/ StartPoll
    \/ StopPoll
    \/ PollTickDue
    \/ \E p \in BagToSet(passes) : PassResume(p) /\ UNCHANGED extras
    \/ \E p \in BagToSet(passes) : PassFailPoll(p)
    \/ \E t \in timers : TimerFire(t) /\ UNCHANGED extras
    \/ \E e \in CoreEvents : PutEvent(e, StartA) /\ UNCHANGED extras
    \/ \E e \in CoreEvents : DeleteEvent(e) /\ UNCHANGED extras
    \/ DbConnect /\ UNCHANGED extras
    \/ Tick

SpecPoll == Init /\ [][NextPoll]_vars

\* ------------------------------------------------------------- a restart
\* SpecRestart follows a stop() and the start() after it, up to the end of the
\* pass that start() begins; the host calls no reset, refresh or cancel.

\* stop(), remembering the Fired Set and the armed timeouts it found; the
\* restart followed is one whose stop() finds no pass awaiting its calendar read
StopRestart ==
    /\ Stop
    /\ restart' = IF isRunning /\ passes = EmptyBag
                  THEN [ phase |-> "stopped", sent |-> sentNotifications,
                         armed |-> { << t.key, t.time >> : t \in timers } ]
                  ELSE restart
    /\ UNCHANGED << timing, presenter, races, productivity >>

\* start() after that stop()
StartRestart ==
    /\ Start
    /\ restart' = IF ~AlreadyRunning /\ restart.phase = "stopped"
                  THEN [ restart EXCEPT !.phase = "started" ]
                  ELSE restart
    /\ UNCHANGED << timing, presenter, races, productivity >>

\* the end of a pass; the pass start() began is the first to end after it
PassResumeRestart(p) ==
    /\ PassResume(p)
    /\ restart' = IF restart.phase = "started" THEN NoRestart ELSE restart
    /\ UNCHANGED << timing, presenter, races, productivity >>

PassFailRestart(p) ==
    /\ PassFail(p)
    /\ restart' = IF restart.phase = "started" THEN NoRestart ELSE restart
    /\ UNCHANGED << timing, presenter, races, productivity >>

NextRestart ==
    \/ StartRestart
    \/ StopRestart
    \/ PollTick /\ UNCHANGED extras
    \/ \E p \in BagToSet(passes) : PassResumeRestart(p)
    \/ \E p \in BagToSet(passes) : PassFailRestart(p)
    \/ \E t \in timers : TimerFire(t) /\ UNCHANGED extras
    \/ \E e \in CoreEvents, st \in StartTimes : PutEvent(e, st) /\ UNCHANGED extras
    \/ \E e \in CoreEvents : DeleteEvent(e) /\ UNCHANGED extras
    \/ DbConnect /\ UNCHANGED extras
    \/ Advance /\ UNCHANGED extras

SpecRestart == Init /\ [][NextRestart]_vars

\* ---------------------------------------------------- a failing presenter
\* SpecPresenter lets windowManager.createNotificationWindow throw. The throw
\* is caught inside showNotification (lines 438-454), which returns normally
\* either way; failedKeys remembers the keys whose presentation threw.

\* the presenter starts or stops throwing
PresenterToggle ==
    /\ presenterBroken' = ~presenterBroken
    /\ last' = SchedOp("env")
    /\ UNCHANGED << Scheduler, calendar, dbConnected, now, timing, failedKeys, restart, races, productivity >>

\* the keys a step has called showNotification for
Presented == { k \in Keys : shown'[k] > shown[k] }

\* the end of a pass, with the presentations of its very-close branch
PassResumePresenter(p) ==
    /\ PassResume(p)
    /\ failedKeys' = IF presenterBroken THEN failedKeys \cup Presented ELSE failedKeys
    /\ UNCHANGED << presenterBroken, timing, restart, races, productivity >>

\* a timeout runs, with the presentation of its callback
TimerFirePresenter(t) ==
    /\ TimerFire(t)
    /\ failedKeys' = IF presenterBroken THEN failedKeys \cup { t.key } ELSE failedKeys
    /\ UNCHANGED << presenterBroken, timing, restart, races, productivity >>

NextPresenter ==
    \/ Start /\ UNCHANGED extras
    \/ PollTick /\ UNCHANGED extras
    \/ \E p \in BagToSet(passes) : PassResumePresenter(p)
    \/ \E t \in timers : TimerFirePresenter(t)
    \/ \E e \in CoreEvents : PutEvent(e, StartA) /\ UNCHANGED extras
    \/ DbConnect /\ UNCHANGED extras
    \/ Advance /\ UNCHANGED extras
    \/ PresenterToggle

SpecPresenter == Init /\ [][NextPresenter]_vars

\* ------------------------------------------------------- the app quitting
\* SpecQuit adds the before-quit handler of database.js, which calls stop()
\* and then database.disconnect(): the handle is gone while the service
\* object and its Fired Set are still there.
DbDisconnect ==
    /\ dbConnected
    /\ ~isRunning
    /\ dbConnected' = FALSE
    /\ last' = SchedOp("env")
    /\ UNCHANGED << Scheduler, calendar, now >>

NextQuit ==
    \/ Start /\ UNCHANGED extras
    \/ Stop /\ UNCHANGED extras
    \/ PollTick /\ UNCHANGED extras
    \/ Refresh /\ UNCHANGED extras
    \/ \E p \in BagToSet(passes) : PassResume(p) /\ UNCHANGED extras
    \/ \E p \in BagToSet(passes) : PassFail(p) /\ UNCHANGED extras
    \/ \E t \in timers : TimerFire(t) /\ UNCHANGED extras
    \/ \E e \in CoreEvents : PutEvent(e, StartA) /\ UNCHANGED extras
    \/ \E e \in CoreEvents : DeleteEvent(e) /\ UNCHANGED extras
    \/ DbConnect /\ UNCHANGED extras
    \/ DbDisconnect /\ UNCHANGED extras
    \/ Advance /\ UNCHANGED extras

SpecQuit == Init /\ [][NextQuit]_vars

\* ------------------------------------------------------- a malformed event
\* SpecMalformed puts a second event into the calendar whose start field is
\* missing or is not a time.
NextMalformed ==
    \/ Start /\ UNCHANGED extras
    \/ PollTick /\ UNCHANGED extras
    \/ \E p \in BagToSet(passes) : PassResume(p) /\ UNCHANGED extras
    \/ \E t \in timers : TimerFire(t) /\ UNCHANGED extras
    \/ \E e \in CoreEvents : PutEvent(e, StartA) /\ UNCHANGED extras
    \/ \E e \in OtherEvents, st \in Malformed : PutEvent(e, st) /\ UNCHANGED extras
    \/ \E e \in EventIds : DeleteEvent(e) /\ UNCHANGED extras
    \/ DbConnect /\ UNCHANGED extras
    \/ Advance /\ UNCHANGED extras

SpecMalformed == Init /\ [][NextMalformed]_vars

\* ------------------------------------------------------ overlapping passes
\* SpecOverlap follows the pass start() begins and one tick of the poll
\* interval that comes while that pass awaits its calendar read: two passes
\* hold the same snapshot, and the calendar stays as it is from then on.

\* the setInterval callback runs while the pass of start() is suspended
PollOverlap ==
    /\ intervals > 0
    /\ overlap = "none"
    /\ BagCardinality(passes) = 1
    /\ \A p \in BagToSet(passes) : p.snap = calendar
    /\ BeginPassUpTo("poll", FALSE, MaxPasses + 1)
    /\ overlap' = "both"
    /\ UNCHANGED << isRunning, checkInterval, intervals, calendar, dbConnected, now >>
    /\ UNCHANGED << timing, presenter, restart, begunAt, productivity >>

\* the end of a pass; the second of two overlapping passes ends the overlap
PassResumeOverlap(p) ==
    /\ PassResume(p)
    /\ overlap' = CASE overlap = "both" /\ BagCardinality(passes) = 2 -> "one"
                     [] overlap = "one" -> "done"
                     [] OTHER -> overlap
    /\ UNCHANGED << timing, presenter, restart, begunAt, productivity >>

\* the calendar changes only before the passes begin
PutEventOverlap(eventId, start) ==
    /\ overlap = "none"
    /\ passes = EmptyBag
    /\ ~isRunning
    /\ PutEvent(eventId, start)
    /\ UNCHANGED extras

NextOverlap ==
    \/ Start /\ UNCHANGED extras
    \/ PollOverlap
    \/ \E p \in BagToSet(passes) : PassResumeOverlap(p)
    \/ \E t \in timers : TimerFire(t) /\ UNCHANGED extras
    \/ \E e \in CoreEvents, st \in StartTimes : PutEventOverlap(e, st)
    \/ DbConnect /\ UNCHANGED extras
    \/ Advance /\ UNCHANGED extras

SpecOverlap == Init /\ [][NextOverlap]_vars

\* ------------------------------------------------- the grace window's edges
\* SpecGrace observes the wall clock around the 30-minute alert point of an
\* event that starts at StartA: one millisecond either side of the alert
\* point and of the instant the grace window opens.
GraceInstants ==
    { 0,
      StartA - ThirtyMinMs - GraceMs - 1,
      StartA - ThirtyMinMs - GraceMs,
      StartA - ThirtyMinMs - GraceMs + 1,
      StartA - ThirtyMinMs - 1,
      StartA - ThirtyMinMs,
      StartA - ThirtyMinMs + 1 }

NextGrace ==
    \/ Start /\ UNCHANGED extras
    \/ PollTick /\ UNCHANGED extras
    \/ \E p \in BagToSet(passes) : PassResume(p) /\ UNCHANGED extras
    \/ \E t \in timers : TimerFire(t) /\ UNCHANGED extras
    \/ Reset /\ UNCHANGED extras
    \/ \E e \in CoreEvents : PutEvent(e, StartA) /\ UNCHANGED extras
    \/ \E e \in CoreEvents : DeleteEvent(e) /\ UNCHANGED extras
    \/ DbConnect /\ UNCHANGED extras
    \/ AdvanceOver(GraceInstants) /\ UNCHANGED extras

SpecGrace == Init /\ [][NextGrace]_vars

\* ------------------------------------------------ the clock across the await
\* SpecClock remembers the instant at which each pass was called, to compare
\* it with the instant at which the pass reads the clock (lines 333-334,
\* after the await of line 321).

\* start(), whose pass begins now
StartClock ==
    /\ Start
    /\ begunAt' = IF AlreadyRunning THEN begunAt ELSE now
    /\ UNCHANGED << timing, presenter, restart, overlap, productivity >>

\* the setInterval callback, whose pass begins now
PollTickClock ==
    /\ PollTick
    /\ begunAt' = now
    /\ UNCHANGED << timing, presenter, restart, overlap, productivity >>

NextClock ==
    \/ StartClock
    \/ PollTickClock
    \/ \E p \in BagToSet(passes) : PassResume(p) /\ UNCHANGED extras
    \/ \E t \in timers : TimerFire(t) /\ UNCHANGED extras
    \/ \E e \in CoreEvents : PutEvent(e, StartA) /\ UNCHANGED extras
    \/ DbConnect /\ UNCHANGED extras
    \/ Advance /\ UNCHANGED extras

SpecClock == Init /\ [][NextClock]_vars

\* --------------------------------------------------------- punctual timers
\* SpecPunctual lets the wall clock pass an instant only when no timeout is
\* due: every timeout runs at the instant it was armed for.
PunctualInstants == Instants \cup GraceInstants

\* the clock moves on: no armed timeout is due, and none is jumped over
AdvancePunctual ==
    /\ \A t \in timers : t.time > now
    /\ AdvanceOver(PunctualInstants)
    /\ \A t \in timers : now' <= t.time

NextPunctual ==
    \/ Start /\ UNCHANGED extras
    \/ Stop /\ UNCHANGED extras
    \/ PollTick /\ UNCHANGED extras
    \/ Refresh /\ UNCHANGED extras
    \/ \E p \in BagToSet(passes) : PassResume(p) /\ UNCHANGED extras
    \/ \E t \in timers : TimerFire(t) /\ UNCHANGED extras
    \/ \E e \in CoreEvents, st \in StartTimes : PutEvent(e, st) /\ UNCHANGED extras
    \/ \E e \in CoreEvents : DeleteEvent(e) /\ UNCHANGED extras
    \/ DbConnect /\ UNCHANGED extras
    \/ AdvancePunctual /\ UNCHANGED extras

SpecPunctual == Init /\ [][NextPunctual]_vars

\* ------------------------------------------------------- timers that run
\* SpecLive is a scheduler that is started and then left alone by the host
\* (no stop, reset, refresh or cancel), with a clock that goes on and a timer
\* subsystem that runs every timeout whose delay has elapsed: the event loop
\* of Node runs a due callback as soon as it is idle, and every callback of
\* the service returns.
NextLive ==
    \/ Start /\ UNCHANGED extras
    \/ PollTick /\ UNCHANGED extras
    \/ \E p \in BagToSet(passes) : PassResume(p) /\ UNCHANGED extras
    \/ \E p \in BagToSet(passes) : PassFail(p) /\ UNCHANGED extras
    \/ \E t \in timers : TimerFire(t) /\ UNCHANGED extras
    \/ \E e \in CoreEvents : PutEvent(e, StartA) /\ UNCHANGED extras
    \/ \E e \in CoreEvents : DeleteEvent(e) /\ UNCHANGED extras
    \/ DbConnect /\ UNCHANGED extras
    \/ Advance /\ UNCHANGED extras

SpecLive ==
    /\ Init
    /\ [][NextLive]_vars
    /\ WF_vars(Advance /\ UNCHANGED extras)
    /\ WF_vars(\E t \in timers : TimerFire(t) /\ UNCHANGED extras)

\* ------------------------------------------- an id that begins with another
\* SpecPrefix holds both events of EventIds in the calendar, with proper start
\* times: the id of the second is the id of the first, an underscore and more.
NextPrefix ==
    \/ Start /\ UNCHANGED extras
    \/ PollTick /\ UNCHANGED extras
    \/ \E p \in BagToSet(passes) : PassResume(p) /\ UNCHANGED extras
    \/ \E t \in timers : TimerFire(t) /\ UNCHANGED extras
    \/ \E e \in EventIds : CancelEvent(e) /\ UNCHANGED extras
    \/ \E e \in EventIds : PutEvent(e, StartA) /\ UNCHANGED extras
    \/ DbConnect /\ UNCHANGED extras
    \/ Advance /\ UNCHANGED extras

SpecPrefix == Init /\ [][NextPrefix]_vars

\* ------------------------------------------------ ProductivityCheckService
\* SpecCheck is the productivity check service on its own clock, which moves
\* in steps of half a check period and passes no instant at which a timeout
\* or an interval is due. The service is constructed stopped, with no handle.

\* mutant: the interval repeats after half the period
CheckPeriod_Half == CheckMs \div 2

\* the delay of setInterval at line 36: 20 * 60 * 1000
CheckPeriod == CheckMs

\* mutant: stop() does not clear the first-check timeout
clearCheckTimers_KeepsTimeout(ts, handles) ==
    { t \in ts : t.kind = "timeout" \/ t.tid \notin handles }

\* clearTimeout / clearInterval: the timers with these handles never run
\* (clearing NoHandle or the handle of a timeout that has run does nothing)
clearCheckTimers(ts, handles) == { t \in ts : t.tid \notin handles }

\* showProductivityCheck() and scheduleNextCheck(), as both callbacks call them
ShowAndScheduleNext ==
    /\ checkCount' = checkCount + 1
    /\ lastCheckTime' = checkNow + CheckMs

\* start(), lines 18-41
CheckStart ==
    IF checkIsRunning
    THEN UNCHANGED productivity
    ELSE /\ handlesMade < MaxHandles
         /\ checkIsRunning' = TRUE
         /\ handlesMade' = handlesMade + 1
         /\ checkTimers' = checkTimers \cup
                { [ tid |-> handlesMade + 1, kind |-> "timeout", due |-> checkNow + CheckMs ] }
         /\ firstCheckTimeout' = handlesMade + 1
         /\ checkStartedAt' = checkNow
         /\ checkCount' = 0
         /\ UNCHANGED << checkServiceInterval, lastCheckTime, checkNow, checkStops >>

\* stop(), lines 46-65
CheckStop ==
    IF ~checkIsRunning
    THEN UNCHANGED productivity
    ELSE /\ checkIsRunning' = FALSE
         /\ checkTimers' = clearCheckTimers(checkTimers, { firstCheckTimeout, checkServiceInterval })
         /\ firstCheckTimeout' = NoHandle
         /\ checkServiceInterval' = NoHandle
         /\ checkStops' = checkStops \cup { t.kind : t \in checkTimers }
         /\ UNCHANGED << lastCheckTime, handlesMade, checkNow, checkStartedAt, checkCount >>

\* the callback of the first-check timeout, lines 28-37: it shows the check
\* and creates the interval; this.firstCheckTimeout keeps the spent handle
FirstCheckFire(t) ==
    /\ t \in checkTimers
    /\ t.kind = "timeout"
    /\ t.due <= checkNow
    /\ handlesMade < MaxHandles
    /\ ShowAndScheduleNext
    /\ handlesMade' = handlesMade + 1
    /\ checkTimers' = (checkTimers \ { t }) \cup
           { [ tid |-> handlesMade + 1, kind |-> "interval", due |-> checkNow + CheckPeriod ] }
    /\ checkServiceInterval' = handlesMade + 1
    /\ UNCHANGED << checkIsRunning, firstCheckTimeout, checkNow, checkStartedAt, checkStops >>

\* the callback of the interval, lines 33-36; the interval is due again a
\* period later
IntervalFire(t) ==
    /\ t \in checkTimers
    /\ t.kind = "interval"
    /\ t.due <= checkNow
    /\ ShowAndScheduleNext
    /\ checkTimers' = (checkTimers \ { t }) \cup { [ t EXCEPT !.due = @ + CheckPeriod ] }
    /\ UNCHANGED << checkIsRunning, firstCheckTimeout, checkServiceInterval, handlesMade,
                    checkNow, checkStartedAt, checkStops >>

\* the clock of the checks moves on when nothing is due
CheckTick ==
    /\ \A t \in checkTimers : t.due > checkNow
    /\ checkNow < MaxTicks * (CheckMs \div 2)
    /\ checkNow' = checkNow + CheckMs \div 2
    /\ UNCHANGED << checkIsRunning, firstCheckTimeout, checkServiceInterval, lastCheckTime,
                    checkTimers, handlesMade, checkStartedAt, checkCount, checkStops >>

\* NotificationService stands still
NotificationIdle ==
    UNCHANGED << Scheduler, calendar, dbConnected, now, last, timing, presenter, restart, races >>

NextCheck ==
    \/ CheckStart /\ NotificationIdle
    \/ CheckStop /\ NotificationIdle
    \/ \E t \in checkTimers : FirstCheckFire(t) /\ NotificationIdle
    \/ \E t \in checkTimers : IntervalFire(t) /\ NotificationIdle
    \/ CheckTick /\ NotificationIdle

SpecCheck == Init /\ [][NextCheck]_vars

\* ================================================================ claims
\* the notification keys of one event
KeysOf(eventId) == { NotificationKey(eventId, ty) : ty \in TypeSet }

\* the armed timeouts whose callback is for key k
TimersOf(ts, k) == { t \in ts : t.key = k }

\* a step of the last operation called resetNotifications
CalledReset(l) ==
    \/ l.op = "reset"
    \/ l.op \in { "refresh", "pass" } /\ l.reset

\* C1: for every (event id, offset kind) pair the Alert Presenter is invoked at
\* most once between two resets, also when a poll pass runs while a timer for
\* the key is armed and its fire time is less than 5 seconds away.
C1_NoDuplicateAlerts == \A k \in Keys : shown[k] <= 1

\* one armed timer per key at most, each recorded under its key, and every
\* Registry entry is the handle of an armed timer
RegistryInv ==
    /\ \A k \in Keys : Cardinality(TimersOf(timers, k)) <= 1
    /\ \A t \in timers : /\ t.key \in DOMAIN scheduledNotifications
                         /\ scheduledNotifications[t.key] = t.tid
    /\ \A k \in DOMAIN scheduledNotifications :
           \E t \in timers : t.tid = scheduledNotifications[k]

\* a step that takes a key out of the Registry is a timer firing, stop,
\* cancelEventNotifications or a call of resetNotifications
RegistryLeave ==
    \A k \in DOMAIN scheduledNotifications :
        k \notin DOMAIN scheduledNotifications' =>
            \/ last'.op \in { "fire", "stop", "cancel" }
            \/ CalledReset(last')

\* C2: at most one armed timer per key, every armed timer is the one the
\* Registry records under its key, and a key leaves the Registry only when its
\* timer fires or when stop, resetNotifications or cancelEventNotifications
\* cancels it.
C2_RegistryInvariant == []RegistryInv /\ [][RegistryLeave]_vars

\* C2 witness: a timer has fired and left the Registry while another timer is
\* still armed and recorded.
C2_Witness ==
    /\ last.op = "fire"
    /\ sentNotifications # {}
    /\ timers # {}
    /\ DOMAIN scheduledNotifications # {}

\* C3: a key that is in the Fired Set, and stays in it, gets no new timer.
C3_NoRearmOfFired ==
    [][ \A k \in sentNotifications \cap sentNotifications' :
            TimersOf(timers', k) \subseteq timers ]_vars

\* C3 witness: a pass without reset met an event whose alert point is 5 s or
\* more ahead, with no timer armed for its key, and skipped it because the key
\* was in the Fired Set.
C3_Witness ==
    /\ last.op = "pass"
    /\ \E e \in EventsOf(last.snap), ty \in TypeSet :
           LET k == NotificationKey(e.id, ty)
           IN  /\ e.start >= now
               /\ NotificationTime(e.start, ty) - now >= GraceMs
               /\ k \in last.sent
               /\ k \notin DOMAIN last.sched
               /\ k \in sentNotifications
               /\ k \notin DOMAIN scheduledNotifications

\* C4, as stated: only an explicit reset removes a key from the Fired Set;
\* start, stop, a poll pass, refresh, cancelForEvent and a timer firing do not.
C4_OnlyExplicitReset ==
    [][ sentNotifications \subseteq sentNotifications'
        \/ last'.op \in { "reset", "clearSent" } ]_vars

\* C4, amended: a key leaves the Fired Set only through resetNotifications
\* (called by the host or by a pass that was asked to reset first, which is
\* what refresh starts), clearSentNotifications or cancelEventNotifications;
\* start, stop, a poll pass and a timer firing never remove a key.
C4_FiredSetRemoval ==
    [][ sentNotifications \subseteq sentNotifications'
        \/ last'.op \in { "clearSent", "cancel" }
        \/ CalledReset(last') ]_vars

\* C4 witness: cancelEventNotifications has removed a key from the Fired Set.
C4_Witness ==
    /\ last.op = "cancel"
    /\ \E k \in last.sent : k \notin sentNotifications

\* C5: the second of two passes without reset that run in immediate succession
\* over the same calendar leaves the Registry as the first pass left it.
C5_IdempotentPass ==
    (last.op = "pass" /\ last.twice) => scheduledNotifications = last.sched

\* C5 witness: the second pass met an alert point 5 s or more ahead whose timer
\* the first pass had left armed.
C5_Witness ==
    /\ last.op = "pass"
    /\ last.twice
    /\ \E e \in EventsOf(last.snap), ty \in TypeSet :
           /\ NotificationTime(e.start, ty) - now >= GraceMs
           /\ NotificationKey(e.id, ty) \in DOMAIN scheduledNotifications

\* C6: in a pass, an alert point of a non-past event that is neither fired nor
\* armed is presented at once when its fire time is 2 s in the past, and is
\* not presented when its fire time is 40 s in the past.
C6_GraceWindow ==
    [][ last'.op = "pass" =>
          \A e \in EventsOf(last'.snap), ty \in TypeSet :
             LET k == NotificationKey(e.id, ty)
                 fireTime == NotificationTime(e.start, ty)
             IN  ( /\ e.start >= now
                   /\ k \notin sentNotifications
                   /\ k \notin DOMAIN scheduledNotifications )
                 => /\ fireTime = now - 2000 => shown'[k] = shown[k] + 1
                    /\ fireTime = now - 40000 => shown'[k] = shown[k] ]_vars

\* C7: a pass presents nothing and arms nothing for an event that starts
\* strictly before now; an event that starts exactly at now is not past: its
\* at-start alert is presented by the pass unless it was already fired.
C7_PastEventSuppression ==
    [][ last'.op = "pass" =>
          \A e \in EventsOf(last'.snap) :
             /\ e.start < now =>
                   \A k \in KeysOf(e.id) :
                      /\ shown'[k] <= shown[k]
                      /\ TimersOf(timers', k) \subseteq timers
             /\ e.start = now =>
                   LET k == NotificationKey(e.id, "now")
                   IN  k \notin sentNotifications =>
                          /\ k \in sentNotifications'
                          /\ shown'[k] >= shown[k]
                          /\ shown[k] < MaxShown => shown'[k] = shown[k] + 1 ]_vars

\* C7 witness: a pass has processed an event that started before now and the
\* event has no timer, no fired key and no presentation.
C7_Witness ==
    /\ last.op = "pass"
    /\ \E e \in EventsOf(last.snap) :
           /\ e.start < now
           /\ \A k \in KeysOf(e.id) :
                 /\ shown[k] = 0
                 /\ k \notin sentNotifications
                 /\ TimersOf(timers, k) = {}

\* C8, as stated: every key that was in the Fired Set before refresh() is
\* still in it when the pass that refresh() started has completed.
C8_RefreshKeepsFiredSet ==
    [][ (last.op = "refresh" /\ last'.op = "pass" /\ last'.reset)
        => last.sent \subseteq sentNotifications' ]_vars

\* C8, amended: refresh() starts a pass at once with resetFirst = true: when
\* the database handle is there it empties the Fired Set and the Registry
\* before the calendar is read and the pass is on its way; without a handle it
\* changes nothing.
C8_RefreshResets ==
    [][ last'.op = "refresh" =>
          IF dbConnected
          THEN /\ sentNotifications' = {}
               /\ scheduledNotifications' = EmptyMap
               /\ timers' = {}
               /\ BagIn([ resetFirst |-> TRUE, snap |-> calendar ], passes')
               /\ BagCardinality(passes') = BagCardinality(passes) + 1
          ELSE UNCHANGED << sentNotifications, scheduledNotifications, timers, passes >>
      ]_vars

\* C8 witness: refresh() was called with a non-empty Fired Set and a database
\* handle, and the Fired Set is empty.
C8_Witness ==
    /\ last.op = "refresh"
    /\ dbConnected
    /\ last.sent # {}
    /\ sentNotifications = {}

\* C9: after cancelEventNotifications(id) the Fired Set holds no key of id,
\* also not a key whose alert had already fired.
C9_CancelClearsFired ==
    last.op = "cancel" => \A k \in KeysOf(last.id) : k \notin sentNotifications

\* right after cancelEventNotifications(id): no timer, no Registry entry of id
CancelledInv ==
    last.op = "cancel" =>
        \A k \in KeysOf(last.id) :
            /\ TimersOf(timers, k) = {}
            /\ k \notin DOMAIN scheduledNotifications

\* a pass arms and presents nothing for an event its snapshot does not hold
NoResurrection ==
    last'.op = "pass" =>
        \A id \in EventIds :
            last'.snap[id] = NoEvent =>
                \A k \in KeysOf(id) :
                    /\ TimersOf(timers', k) \subseteq timers
                    /\ shown'[k] <= shown[k]

\* C10: after cancelEventNotifications(id) no timer is armed and no Registry
\* entry exists for a key of id, and a pass over a snapshot without the event
\* arms no timer and presents no alert for id.
C10_EventDeletion == []CancelledInv /\ [][NoResurrection]_vars

\* C10 witness: cancelEventNotifications(id) was called while timers of id
\* were armed, and none is left.
C10_Witness ==
    /\ last.op = "cancel"
    /\ \E k \in KeysOf(last.id) : k \in DOMAIN last.sched
    /\ \A k \in KeysOf(last.id) : TimersOf(timers, k) = {}

\* the armed timeout the Registry holds for key k, due at time
ArmedAt(k, time) ==
    /\ k \in DOMAIN scheduledNotifications
    /\ \E t \in timers : t.tid = scheduledNotifications[k] /\ t.key = k /\ t.time = time

\* C11: right after resetNotifications() no timeout is armed and the Registry
\* and the Fired Set are empty; and a pass that starts from an empty Registry
\* and an empty Fired Set, as the reset leaves them, ends with a timeout armed
\* for every alert point of an event not yet started that is due 5 s or more
\* ahead, whatever the Fired Set held before the reset.
C11_ResetClearsState ==
    /\ last.op = "reset" =>
          /\ timers = {}
          /\ scheduledNotifications = EmptyMap
          /\ sentNotifications = {}
    /\ (last.op = "pass" /\ last.sent = {} /\ last.sched = EmptyMap) =>
          \A e \in EventsOf(last.snap), ty \in TypeSet :
              (e.start >= now /\ NotificationTime(e.start, ty) - now >= GraceMs) =>
                  ArmedAt(NotificationKey(e.id, ty), NotificationTime(e.start, ty))

\* C11 witness: the pass that directly follows a reset has armed a timeout for
\* a key the reset took out of the Fired Set.
C11_Witness ==
    /\ last.op = "pass"
    /\ last.sent = {}
    /\ last.sched = EmptyMap
    /\ \E e \in EventsOf(last.snap), ty \in TypeSet :
           /\ NotificationKey(e.id, ty) \in last.cleared
           /\ NotificationTime(e.start, ty) - now >= GraceMs
           /\ ArmedAt(NotificationKey(e.id, ty), NotificationTime(e.start, ty))

\* C12: stop() on a running scheduler clears the poll interval and every armed
\* timeout, empties the Registry and leaves the Fired Set as it was; stop() on
\* a stopped scheduler changes nothing.
C12_StopFrame ==
    [][ last'.op = "stop" =>
          IF isRunning
          THEN /\ ~isRunning'
               /\ ~checkInterval'
               /\ intervals' = 0
               /\ timers' = {}
               /\ scheduledNotifications' = EmptyMap
               /\ sentNotifications' = sentNotifications
          ELSE UNCHANGED << isRunning, checkInterval, intervals, scheduledNotifications,
                            sentNotifications, timers, passes, calendar, dbConnected,
                            now, shown >> ]_vars

\* C12 witness: stop() has cleared a Registry that held a timeout while the
\* Fired Set held a key, and the key is still there.
C12_Witness ==
    /\ last.op = "stop"
    /\ last.sched # EmptyMap
    /\ last.sent # {}
    /\ sentNotifications = last.sent
    /\ timers = {}
    /\ intervals = 0

\* at most one poll interval is armed, and it is the one this.checkInterval holds
OneInterval ==
    /\ intervals <= 1
    /\ checkInterval <=> intervals = 1
    /\ checkInterval <=> isRunning

\* start() on a running scheduler begins no pass, arms no interval and
\* changes nothing else
StartOnRunning ==
    (last'.op \in { "start", "startAlready" } /\ isRunning) =>
        UNCHANGED << isRunning, checkInterval, intervals, scheduledNotifications,
                     sentNotifications, timers, passes, calendar, dbConnected, now, shown >>

\* C13: start() on a running scheduler is a no-op (no further pass, no second
\* poll interval), and in every reachable state at most one poll interval is
\* armed, whatever the sequence of start() and stop() calls.
C13_StartIdempotent == []OneInterval /\ [][StartOnRunning]_vars

\* C13 witness: start() was called on a running scheduler, whose poll
\* interval is the only one armed.
C13_Witness ==
    /\ last.op = "startAlready"
    /\ isRunning
    /\ intervals = 1

\* C14: start() on a stopped scheduler begins a pass at once; while the
\* scheduler runs, the interval began one poll pass at each multiple of 30 s
\* since that start() and none at any other instant; once the scheduler is
\* stopped no interval is armed, so the interval begins no pass after stop().
C14_PollSchedule ==
    /\ (last.op = "start" /\ dbConnected) =>
          BagIn([ resetFirst |-> FALSE, snap |-> last.snap ], passes)
    /\ isRunning =>
          /\ intervals = 1
          /\ startedAt + pollCount * 30000 <= now
          /\ now <= startedAt + (pollCount + 1) * 30000
    /\ last.op = "poll" =>
          /\ isRunning
          /\ pollCount >= 1
          /\ now = startedAt + pollCount * 30000
    /\ ~isRunning => intervals = 0

\* C14 witness: the second poll pass since start() has begun, 60 s after it.
C14_Witness ==
    /\ last.op = "poll"
    /\ isRunning
    /\ pollCount = 2
    /\ now = startedAt + 60000
    /\ passes # EmptyBag

\* C15: at the end of the first pass after a stop() and the start() that
\* follows it, with no reset in between, the Fired Set still holds every key it
\* held at the stop, the pass has presented none of them again, and every
\* alert point of the calendar that had a timeout armed at the stop and is
\* still due 5 s or more ahead has a timeout armed again.
C15_RestartPreservesFired ==
    [][ (last'.op = "pass" /\ restart.phase = "started") =>
          /\ restart.sent \subseteq sentNotifications'
          /\ \A k \in restart.sent : shown'[k] = shown[k]
          /\ \A e \in EventsOf(last'.snap), ty \in TypeSet :
                 LET k == NotificationKey(e.id, ty)
                     time == NotificationTime(e.start, ty)
                 IN  (<< k, time >> \in restart.armed /\ time - now >= 5000) =>
                         k \in DOMAIN scheduledNotifications' ]_vars

\* C16: when the calendar read of a pass throws, the pass ends there and the
\* Registry, the Fired Set and the armed timeouts are left as they were; for a
\* poll pass that is the Registry and the Fired Set from before the pass began.
C16_ReadFailureContained ==
    [][ last'.op = "passFail" =>
          /\ UNCHANGED << scheduledNotifications, sentNotifications, timers, shown >>
          /\ last.op \in { "start", "poll" } =>
                 /\ scheduledNotifications' = last.sched
                 /\ sentNotifications' = last.sent ]_vars

\* C16 witness: the read of a pass that was not asked to reset has thrown, and
\* the Registry and the Fired Set, neither empty, are those the pass found.
C16_Witness ==
    /\ last.op = "passFail"
    /\ ~last.reset
    /\ last.sched # EmptyMap
    /\ last.sent # {}
    /\ scheduledNotifications = last.sched
    /\ sentNotifications = last.sent

\* the keys of the alert points a pass over snapshot snap at instant at would
\* have armed or presented, given the Fired Set and the Registry it would find
WouldHandle(snap, at, sent, sched) ==
    { NotificationKey(e.id, ty) : << e, ty >> \in
        { x \in EventsOf(snap) \X TypeSet :
            /\ x[1].start >= at
            /\ NotificationTime(x[1].start, x[2]) >= at
            /\ NotificationKey(x[1].id, x[2]) \notin sent
            /\ NotificationTime(x[1].start, x[2]) - at >= 5000 =>
                   NotificationKey(x[1].id, x[2]) \notin DOMAIN sched } }

\* the instant the alert point of key k is due under snapshot snap
DueOf(snap, k) ==
    LET x == CHOOSE y \in EventsOf(snap) \X TypeSet : NotificationKey(y[1].id, y[2]) = k
    IN  NotificationTime(x[1].start, x[2])

\* a pass over the calendar of the failed pass ends 30 s after the failure
RecoveryPass ==
    /\ last'.op = "pass"
    /\ ~last'.reset
    /\ last'.snap = failed.snap
    /\ now = failed.at + 30000

C18_PresenterFailureContained ==
    \A k \in failedKeys :
        /\ k \in sentNotifications
        /\ k \notin DOMAIN scheduledNotifications
        /\ shown[k] <= 1

\* C20: a pass that was asked to reset first and cannot read the calendar
\* (no database handle, or the read throws) or reads an empty calendar ends
\* with the Registry and the Fired Set empty and no timeout armed.
C20_ResetWhenUnreadable ==
    ( \/ last.op = "refresh" /\ ~dbConnected
      \/ last.op = "passFail" /\ last.reset
      \/ last.op = "pass" /\ last.reset /\ EventsOf(last.snap) = {} ) =>
        /\ scheduledNotifications = EmptyMap
        /\ sentNotifications = {}
        /\ timers = {}

\* the events of a snapshot whose start field is missing or is not a time
MalformedOf(snap) == { e \in EventsOf(snap) : e.start \in { 0 - 2, 0 - 3 } }

\* C19: a pass over a snapshot that holds an event with a missing or
\* unparsable start arms no timeout and presents no alert for that event, and
\* leaves the Registry, the Fired Set, the timeouts and the presentations
\* exactly as processing the other events of the snapshot alone leaves them.
C19_MalformedEventSkipped ==
    [][ (last'.op = "pass" /\ MalformedOf(last'.snap) # {}) =>
          LET s == ProcessEvents(Sched, EventsOf(last'.snap) \ MalformedOf(last'.snap), now)
          IN  /\ scheduledNotifications' = s.scheduled
              /\ sentNotifications' = s.sent
              /\ timers' = s.timers
              /\ shown' = s.shown
              /\ \A e \in MalformedOf(last'.snap) : \A k \in KeysOf(e.id) :
                     /\ k \notin DOMAIN scheduledNotifications'
                     /\ k \notin sentNotifications'
                     /\ TimersOf(timers', k) = {}
                     /\ shown'[k] = 0 ]_vars

\* C19 witness: a pass over a snapshot with a malformed event and a
\* well-formed one has armed a timeout for the well-formed one and has
\* presented its alert that was due.
C19_Witness ==
    /\ last.op = "pass"
    /\ MalformedOf(last.snap) # {}
    /\ \E e \in EventsOf(last.snap) \ MalformedOf(last.snap) :
           /\ ArmedAt(NotificationKey(e.id, "now"), e.start)
           /\ NotificationKey(e.id, "30min") \in sentNotifications \ last.sent

\* C21: refreshNotifications() called while the scheduler is stopped is a
\* no-op: the pass it begins arms no timeout and presents no alert.
C21_RefreshWhileStopped ==
    [][ (last.op = "refresh" /\ ~isRunning /\ last'.op = "pass" /\ last'.reset) =>
          /\ timers' = {}
          /\ scheduledNotifications' = EmptyMap
          /\ shown' = shown ]_vars

\* C22: two passes whose calendar reads overlap over an unchanged calendar
\* leave every notification key with at most one armed timeout and presented
\* at most once, in whatever order and at whatever instants they resume.
C22_OverlapSafe ==
    overlap = "done" =>
        \A k \in Keys : /\ Cardinality(TimersOf(timers, k)) <= 1
                        /\ shown[k] <= 1

\* the events of the snapshot of the pass that has just ended which that pass
\* observed at the instant start + late with none of their keys in the
\* Registry or the Fired Set
FirstSeenAt(late) ==
    IF last.op = "pass"
    THEN { e \in EventsOf(last.snap) :
             /\ e.start \in StartTimes
             /\ now = e.start + late
             /\ KeysOf(e.id) \cap (last.sent \cup DOMAIN last.sched) = {} }
    ELSE {}

\* the keys of event e are in neither collection and have no timeout
Untouched(e) ==
    \A k \in KeysOf(e.id) :
        /\ k \notin sentNotifications
        /\ k \notin DOMAIN scheduledNotifications
        /\ TimersOf(timers, k) = {}

\* C23: an event first observed by a pass 5 seconds after its start time gets
\* no alert at all: none of its three alert points is presented or armed.
C23_StartedEventSkipped ==
    \A e \in FirstSeenAt(GraceMs) : Untouched(e)

C23_Witness ==
    \E e \in FirstSeenAt(GraceMs) : Untouched(e) /\ shown[NotificationKey(e.id, "now")] = 0

\* the timeout the Registry holds for key k was armed, by the pass that has
\* just ended, with a delay within slack of delay (the clock has not moved
\* since: the delay is the due time less now)
ArmedWithDelay(k, delay, slack) ==
    /\ k \in DOMAIN scheduledNotifications
    /\ \E t \in timers : /\ t.tid = scheduledNotifications[k]
                         /\ t.key = k
                         /\ t.time - now >= delay - slack
                         /\ t.time - now <= delay + slack

\* key k was presented inside the pass, without a timeout
PresentedInPass(k) ==
    /\ k \in sentNotifications
    /\ k \notin DOMAIN scheduledNotifications
    /\ TimersOf(timers, k) = {}
    /\ shown[k] >= 1

\* C24 as stated: an event first observed 2 seconds before its 30-minute
\* alert point has that alert handled by the grace window, and its 15-minute
\* and at-start alerts armed with delays of about 899 s and about 1799 s.
C24_GraceScenario ==
    \A e \in FirstSeenAt(0 - (ThirtyMinMs + 2000)) :
        /\ PresentedInPass(NotificationKey(e.id, "30min"))
        /\ ArmedWithDelay(NotificationKey(e.id, "15min"), 899000, 1000)
        /\ ArmedWithDelay(NotificationKey(e.id, "now"), 1799000, 1000)

\* C24 amended: an event first observed 2 seconds before its 30-minute alert
\* point has that alert presented inside the pass, with no timeout, and its
\* 15-minute and at-start alerts armed with delays of 902 s and 1802 s.
C24_GraceScenarioDelays ==
    \A e \in FirstSeenAt(0 - (ThirtyMinMs + 2000)) :
        /\ PresentedInPass(NotificationKey(e.id, "30min"))
        /\ ArmedWithDelay(NotificationKey(e.id, "15min"), 902000, 0)
        /\ ArmedWithDelay(NotificationKey(e.id, "now"), 1802000, 0)

C24_Witness ==
    \E e \in FirstSeenAt(0 - (ThirtyMinMs + 2000)) :
        /\ shown[NotificationKey(e.id, "30min")] = 1
        /\ ArmedAt(NotificationKey(e.id, "15min"), e.start - FifteenMinMs)
        /\ ArmedAt(NotificationKey(e.id, "now"), e.start)

\* C25: a pass skips every alert point whose key has an armed timeout in the
\* Registry: it arms no second timeout for the key and does not present it.
C25_ArmedKeySkipped ==
    [][ last'.op = "pass" =>
          \A k \in DOMAIN scheduledNotifications :
              /\ TimersOf(timers', k) = TimersOf(timers, k)
              /\ shown'[k] = shown[k] ]_vars

\* no step taken while the scheduler is stopped presents an alert
QuietWhileStopped ==
    (~isRunning /\ ~isRunning') => \A k \in Keys : shown'[k] <= shown[k]

\* C26: while the scheduler is stopped the Registry stays empty and no alert
\* is presented, also when a pass begun before stop() resumes after it.
C26_StoppedIsQuiet ==
    /\ [](~isRunning => scheduledNotifications = EmptyMap)
    /\ [][QuietWhileStopped]_vars

\* C27: once an event has been deleted from the calendar and
\* cancelEventNotifications(id) has been called for it, the step that follows,
\* the end of a pass that read the calendar before the deletion included,
\* presents no alert of that event.
C27_DeletedAndCancelled ==
    [][ ( /\ last.op = "cancel"
          /\ calendar[last.id] = NoEvent
          /\ calendar'[last.id] = NoEvent ) =>
          \A k \in KeysOf(last.id) : shown'[k] <= shown[k] ]_vars

\* the Registry entry of key k is the armed timeout of an alert point of an
\* event of the calendar as it is now, due at the time computed from the
\* start time the event has now
InSync(k) ==
    \E e \in EventsOf(calendar), ty \in TypeSet :
        /\ k = NotificationKey(e.id, ty)
        /\ ArmedAt(k, NotificationTime(e.start, ty))

\* C28: after a pass over the calendar as it is now has ended, every armed
\* timeout of the Registry belongs to an event of the calendar and is due at
\* the alert point computed from that event's current start time.
C28_Resynchronized ==
    (last.op = "pass" /\ last.snap = calendar) =>
        \A k \in DOMAIN scheduledNotifications : InSync(k)

\* the step is the callback of the armed timeout t: one more presentation of
\* the event and type t was armed with, and of nothing else; the key of t
\* leaves the Registry and enters the Fired Set
FiredAs(t) ==
    /\ t.time <= now
    /\ t.key = NotificationKey(t.event.id, t.type)
    /\ timers' = timers \ { t }
    /\ shown' = [ shown EXCEPT ![NotificationKey(t.event.id, t.type)] =
                              IF @ < MaxShown THEN @ + 1 ELSE @ ]
    /\ scheduledNotifications' = MapDelete(scheduledNotifications, { t.key })
    /\ sentNotifications' = sentNotifications \cup { t.key }
    /\ UNCHANGED << isRunning, checkInterval, intervals, passes, calendar, now >>

\* C29: when an armed timeout fires, the presenter is called once with the
\* event and the type captured at arming time, the key is removed from the
\* Registry and added to the Fired Set, all in the one step of the callback.
C29_TimerFires ==
    [][ last'.op = "fire" => \E t \in timers : FiredAs(t) ]_vars

C29_Witness ==
    /\ last.op = "fire"
    /\ \E k \in sentNotifications :
          /\ k \notin DOMAIN scheduledNotifications
          /\ TimersOf(timers, k) = {}
          /\ shown[k] = 1

\* the events of the snapshot of the pass that has just ended that have not
\* started yet and had none of their keys in the Registry or the Fired Set
NewEvents ==
    IF last.op = "pass"
    THEN { e \in EventsOf(last.snap) :
             /\ e.start \in StartTimes
             /\ e.start >= now
             /\ KeysOf(e.id) \cap (last.sent \cup DOMAIN last.sched) = {} }
    ELSE {}

\* the three alert points of an event: kind and fire time
AlertPoints(e) ==
    { << "30min", e.start - ThirtyMinMs >>,
      << "15min", e.start - FifteenMinMs >>,
      << "now", e.start >> }

\* the pass has dealt with alert point p of event e by its fire time alone:
\* armed when 5 s or more ahead, presented when closer, left alone when past
Derived(e, p) ==
    LET k == NotificationKey(e.id, p[1])
    IN  IF p[2] - now >= GraceMs THEN ArmedAt(k, p[2])
        ELSE IF p[2] >= now THEN PresentedInPass(k)
        ELSE /\ k \notin sentNotifications
             /\ k \notin DOMAIN scheduledNotifications
             /\ TimersOf(timers, k) = {}

\* C30: for an event that has not started, a pass derives exactly three alert
\* points, of kinds 30min, 15min and now, due 30 minutes before the start, 15
\* minutes before the start and at the start.
C30_ThreeAlertPoints ==
    \A e \in NewEvents :
        /\ \A p \in AlertPoints(e) : Derived(e, p)
        /\ \A t \in timers :
              t.event.id = e.id => << t.type, t.time >> \in AlertPoints(e)

C30_Witness ==
    \E e \in NewEvents :
        /\ Cardinality({ t \in timers : t.event.id = e.id }) = 3
        /\ \A p \in AlertPoints(e) : ArmedAt(NotificationKey(e.id, p[1]), p[2])

\* the alert points (event, kind) of the snapshot of the pass that has just
\* ended whose key was in neither the Registry nor the Fired Set
NewPoints ==
    IF last.op = "pass"
    THEN { << e, ty >> \in EventsOf(last.snap) \X TypeSet :
             /\ e.start \in StartTimes
             /\ NotificationKey(e.id, ty) \notin last.sent \cup DOMAIN last.sched }
    ELSE {}

\* the alert points (event, kind) of the snapshot of the pass that has just
\* ended, whatever collection their key was in
NewPointsOrOld ==
    IF last.op = "pass"
    THEN { x \in EventsOf(last.snap) \X TypeSet : x[1].start \in StartTimes }
    ELSE {}

\* the fire time of alert point x, by the offsets of lines 378-382
FireTimeOf(x) ==
    x[1].start - (CASE x[2] = "30min" -> ThirtyMinMs
                    [] x[2] = "15min" -> FifteenMinMs
                    [] OTHER -> 0)

C32_DecisionsAtPassStart ==
    \A x \in NewPoints :
        LET k == NotificationKey(x[1].id, x[2])
            d == FireTimeOf(x) - begunAt
        IN  /\ (0 <= d /\ d < GraceMs) => k \in sentNotifications
            /\ d >= GraceMs => k \in DOMAIN scheduledNotifications
            /\ d < 0 => /\ k \notin sentNotifications
                        /\ k \notin DOMAIN scheduledNotifications

\* C33: no notification key is in the Registry and in the Fired Set at the
\* same time.
C33_RegistryFiredDisjoint ==
    DOMAIN scheduledNotifications \cap sentNotifications = {}

\* the fire times of key k by the event snapshots the step presents from: the
\* snapshot of the pass that ends, or the event the timeout that runs was
\* armed with
FireTimesAt(k) ==
    IF last'.op = "pass"
    THEN { FireTimeOf(x) : x \in { y \in EventsOf(last'.snap) \X TypeSet :
                                     NotificationKey(y[1].id, y[2]) = k } }
    ELSE { FireTimeOf(<< t.event, t.type >>) : t \in { u \in timers \ timers' : u.key = k } }

\* the step presents no alert late, and none 5 seconds or more early
PresentedOnTime ==
    \A k \in Keys :
        shown'[k] > shown[k] =>
            \E fireTime \in FireTimesAt(k) : /\ fireTime - GraceMs < now
                                             /\ now <= fireTime

ObservedInTime(k) ==
    \E x \in NewPointsOrOld : /\ NotificationKey(x[1].id, x[2]) = k
                              /\ FireTimeOf(x) >= now

\* C35: an alert point that a successful pass observes at or before its fire
\* time, and an alert point that has a timeout armed, is eventually presented
\* when the scheduler is not stopped, reset or cancelled afterwards.
C35_EventuallyPresented ==
    \A k \in KeysOf(<< "a" >>) :
        (ObservedInTime(k) \/ k \in DOMAIN scheduledNotifications) ~> (shown[k] >= 1)

\* the timeout of an alert point observed more than 5 s ahead has run
C35_Witness ==
    /\ last.op = "fire"
    /\ \E k \in KeysOf(<< "a" >>) :
          /\ shown[k] = 1
          /\ k \in sentNotifications
          /\ now >= StartA - ThirtyMinMs

\* the step leaves the timeouts, the Registry entries and the Fired Set
\* entries of event id2 as they are
EventUntouched(id2) ==
    \A k \in KeysOf(id2) :
        /\ TimersOf(timers', k) = TimersOf(timers, k)
        /\ (k \in DOMAIN scheduledNotifications') = (k \in DOMAIN scheduledNotifications)
        /\ (k \in sentNotifications') = (k \in sentNotifications)

\* C36: cancelEventNotifications(id) leaves the timeouts, Registry entries
\* and Fired Set entries of every other event as they are, also those of an
\* event whose id begins with id followed by an underscore.
C36_CancelFrame ==
    [][ last'.op = "cancel" =>
          \A id2 \in EventIds \ { last'.id } : EventUntouched(id2) ]_vars

\* the step shows a productivity check
CheckShown == checkCount' = checkCount + 1

\* the timeouts and intervals the step creates
CheckTimersCreated ==
    { t \in checkTimers' : t.tid \notin { u.tid : u \in checkTimers } }

\* C37: the n-th productivity check after a start() is shown n times 20
\* minutes after it; the interval exists only once the first check has been
\* shown, never beside the first-check timeout; and no timeout is created
\* while the service is running, and no interval but by the first check.
C37_CheckEvery20Min ==
    /\ [](/\ Cardinality(checkTimers) <= 1
          /\ \A t \in checkTimers : t.kind = "interval" => checkCount >= 1
          /\ \A t \in checkTimers : t.kind = "timeout" => checkCount = 0)
    /\ [][ /\ CheckShown => checkNow = checkStartedAt + checkCount' * CheckMs
           /\ \A t \in CheckTimersCreated :
                 IF t.kind = "timeout"
                 THEN ~checkIsRunning
                 ELSE CheckShown /\ checkCount' = 1 ]_vars

\* the third check after a start() has been shown, an hour after it
C37_Witness ==
    /\ checkIsRunning
    /\ checkCount = 3
    /\ checkNow = checkStartedAt + 3 * CheckMs

\* C38: a stopped productivity check service has no timeout and no interval
\* armed and shows no check, whether stop() found the first-check timeout or
\* the interval armed; and every start() of a stopped service arms the first
\* check for 20 minutes after that start().
C38_StopSilences ==
    /\ [](~checkIsRunning => checkTimers = {})
    /\ [][ /\ CheckShown => checkIsRunning /\ checkIsRunning'
           /\ (~checkIsRunning /\ checkIsRunning') =>
                 \E t \in checkTimers' :
                    /\ checkTimers' = { t }
                    /\ t.kind = "timeout"
                    /\ t.due = checkNow + CheckMs ]_vars

\* stop() has found the timeout armed once and the interval armed once, and
\* the service started after that has shown its first check
C38_Witness ==
    /\ checkStops = { "timeout", "interval" }
    /\ checkIsRunning
    /\ checkCount = 1
    /\ checkNow = checkStartedAt + CheckMs

====
